---- MODULE Spec2Model ----
(***************************************************************************)
(* PullReviewer (src/handlers/pull-reviewer.ts): the precheck -> review -> *)
(* submit pipeline of one webhook delivery, the review throttle, the task  *)
(* linker and the ground-truth selection.                                  *)
(*                                                                         *)
(* One invocation is one PullReviewer object running performPullPrecheck.  *)
(* Every await of the code is a step boundary: an action is the awaited    *)
(* external call together with the synchronous code that runs until the    *)
(* next await.  Responses of the collaborators (octokit, the completion    *)
(* client, the fetch helpers) are drawn from small sets.                   *)
(*                                                                         *)
(* Time is in milliseconds, as in Date.getTime().  confidenceThreshold is  *)
(* kept in tenths (0.2 is 2, 0.5 is 5, 1 is 10) because TLC has no reals.  *)
(***************************************************************************)
EXTENDS Integers, Sequences, FiniteSets, TLC

VARIABLES
    now,        \* the wall clock, new Date().getTime()
    timeline,   \* the pull request's issue events, as listEvents returns them
    inv         \* one record per invocation: position, context, locals, outcome

vars == <<now, timeline, inv>>

----------------------------------------------------------------------------
(* Bounds *)

\* the clock runs up to this many days
MaxDays == 1
\* the longest timeline the throttle is exercised on in ThrottleSpec
MaxEvents == 3

----------------------------------------------------------------------------
(* Program constants *)

_oneDay == 24 * 60 * 60 * 1000

\* the literal 0.5 of _handleCodeReview, in tenths
HalfConfidence == 5

\* the two webhook events a PullReviewer is constructed for
Procs == {"pull_request.opened", "pull_request.ready_for_review"}

----------------------------------------------------------------------------
(* Values *)

NoResult == [status |-> 0, reason |-> ""]
\* the createReview request and whether it was answered with a review
NoReview == [body |-> "", event |-> "", created |-> FALSE]
NoError == ""

Word(h, d) == [hash |-> h, digits |-> d]
Text == Word(FALSE, 0)
\* pull_request.body: null, or text in which some words are #<digits>
Body(n, w) == [null |-> n, words |-> w]
Bodies ==
    { Body(TRUE, <<>>),
      Body(FALSE, <<>>),
      Body(FALSE, <<Text>>),
      Body(FALSE, <<Word(TRUE, 0)>>),
      Body(FALSE, <<Text, Word(TRUE, 5), Word(TRUE, 7)>>) }

PullRequests ==
    [draft : BOOLEAN, state : {"open", "closed"}, number : {0, 3}, body : Bodies]

NoPullRequest ==
    [draft |-> FALSE, state |-> "", number |-> 0, body |-> Body(TRUE, <<>>)]

\* a Record<string, string> or undefined
Mapping(p, k) == [present |-> p, keys |-> k]
Pending == "pending"
NoMapping == Mapping(FALSE, {})

\* no answer of the closing-references query, no answer of the completion
NoResponse == [ok |-> FALSE, edges |-> <<>>]
NoField == [type |-> "undefined", numeric |-> FALSE, value |-> 0, text |-> ""]
NoAnswer == [parses |-> FALSE, confidenceThreshold |-> NoField, reviewComment |-> NoField]

Idle ==
    [ pc |-> "idle",
      pull_request |-> NoPullRequest,
      log |-> <<>>,
      graphql |-> NoResponse,
      closingIssues |-> <<>>,
      taskNumber |-> 0,
      languages |-> <<>>,
      langState |-> "none",
      dependencies |-> NoMapping,
      devDependencies |-> NoMapping,
      depsState |-> "none",
      groundTruths |-> <<>>,
      answer |-> NoAnswer,
      confidenceThreshold |-> 0,
      reviewComment |-> "",
      review |-> NoReview,
      result |-> NoResult,
      error |-> NoError ]

Terminal == {"returned", "threw"}

----------------------------------------------------------------------------
(* Outcomes of an invocation *)

\* return {status, reason}
Return(r, status, reason) ==
    [r EXCEPT !.pc = "returned", !.result = [status |-> status, reason |-> reason]]

\* throw logger.error(message)
Throw(r, message) == [r EXCEPT !.pc = "threw", !.error = message]

\* an external call is made
Logged(r, call) == [r EXCEPT !.log = Append(@, call)]

Calls(p, call) == Len(SelectSeq(inv[p].log, LAMBDA c : c = call))

----------------------------------------------------------------------------
(* Review throttle: canPerformReview, lines 87-118 *)

Event(kind, actorType, at) ==
    [event |-> kind, actor |-> [type |-> actorType], created_at |-> at]

IsReviewed(e) == e.event = "reviewed"
IsBot(e) == e.actor.type = "Bot"

\* botReviews[0] where the last one is meant
lastReview_first(botReviews) == botReviews[1]

\* botReviews[botReviews.length - 1]
lastReview(botReviews) == botReviews[Len(botReviews)]

\* The value canPerformReview computes from the listEvents data at time t:
\* it throws, or it returns a boolean.
canPerformReview(data, t) ==
    LET reviews == SelectSeq(data, IsReviewed)
        botReviews == SelectSeq(reviews, IsBot)
    IN  IF Len(botReviews) = 0
        THEN [threw |-> FALSE, value |-> TRUE]
        ELSE LET diff == t - lastReview(botReviews).created_at
             IN  IF diff < _oneDay
                 THEN [threw |-> TRUE, value |-> FALSE]
                 ELSE [threw |-> FALSE, value |-> TRUE]

----------------------------------------------------------------------------
(* Task linker: checkIfPrClosesIssues and getTaskNumberFromPullRequest *)

\* what octokit.graphql answers to closedByPullRequestsReferences: it rejects,
\* or it resolves with the closing issues' edges (here: their numbers)
GraphqlResponses ==
    { [ok |-> FALSE, edges |-> <<>>],
      [ok |-> TRUE, edges |-> <<>>],
      [ok |-> TRUE, edges |-> <<7>>],
      [ok |-> TRUE, edges |-> <<5, 7>>] }

\* the catch of lines 256-262 rethrowing the query's failure
checkIfPrClosesIssues_propagates(pr_number, response) ==
    IF pr_number = 0
    THEN [threw |-> TRUE, queried |-> FALSE, closesIssues |-> FALSE, issues |-> <<>>]
    ELSE IF ~response.ok
         THEN [threw |-> TRUE, queried |-> TRUE, closesIssues |-> FALSE,
               issues |-> <<>>]
         ELSE IF Len(response.edges) > 0
         THEN [threw |-> FALSE, queried |-> TRUE, closesIssues |-> TRUE,
               issues |-> response.edges]
         ELSE [threw |-> FALSE, queried |-> TRUE, closesIssues |-> FALSE,
               issues |-> <<>>]

\* lines 214-263; queried says whether octokit.graphql was called
checkIfPrClosesIssues(pr_number, response) ==
    IF pr_number = 0
    THEN [threw |-> TRUE, queried |-> FALSE, closesIssues |-> FALSE, issues |-> <<>>]
    ELSE IF response.ok /\ Len(response.edges) > 0
         THEN [threw |-> FALSE, queried |-> TRUE, closesIssues |-> TRUE,
               issues |-> response.edges]
         ELSE [threw |-> FALSE, queried |-> TRUE, closesIssues |-> FALSE,
               issues |-> <<>>]

IsHash(w) == w.hash

\* pull_request.body?.match(/#(\d+)/g): the #<digits> words, <<>> for no match
\* or a null body
linkedViaBodyHash(body) ==
    IF body.null THEN <<>> ELSE SelectSeq(body.words, IsHash)

\* several closing issues resolved by taking the first
resolveTask_pickFirst(closingIssues, body) ==
    LET hashes == linkedViaBodyHash(body)
        issueNumber ==
            IF Len(closingIssues) = 0
            THEN IF Len(hashes) > 0 THEN hashes[1].digits ELSE 0
            ELSE closingIssues[1]
    IN  IF Len(closingIssues) = 0 /\ Len(hashes) = 0
        THEN [kind |-> "convert", number |-> 0]
        ELSE IF issueNumber = 0
        THEN [kind |-> "notFound", number |-> 0]
        ELSE [kind |-> "task", number |-> issueNumber]

\* no link at all falling through to the check of line 295
resolveTask_noConvert(closingIssues, body) ==
    LET hashes == linkedViaBodyHash(body)
        issueNumber ==
            IF Len(closingIssues) = 0
            THEN IF Len(hashes) > 0 THEN hashes[1].digits ELSE 0
            ELSE closingIssues[1]
    IN  IF Len(closingIssues) > 1
        THEN [kind |-> "multiple", number |-> 0]
        ELSE IF issueNumber = 0
        THEN [kind |-> "notFound", number |-> 0]
        ELSE [kind |-> "task", number |-> issueNumber]

\* the last #<digits> token of the body taken instead of the first
resolveTask_lastHash(closingIssues, body) ==
    LET hashes == linkedViaBodyHash(body)
        issueNumber ==
            IF Len(closingIssues) = 0
            THEN IF Len(hashes) > 0 THEN hashes[Len(hashes)].digits ELSE 0
            ELSE closingIssues[1]
    IN  IF Len(closingIssues) = 0 /\ Len(hashes) = 0
        THEN [kind |-> "convert", number |-> 0]
        ELSE IF Len(closingIssues) > 1
        THEN [kind |-> "multiple", number |-> 0]
        ELSE IF issueNumber = 0
        THEN [kind |-> "notFound", number |-> 0]
        ELSE [kind |-> "task", number |-> issueNumber]

\* lines 277-299 once the closing issues are known: the task number, the
\* corrective draft conversion, or an error
resolveTask(closingIssues, body) ==
    LET hashes == linkedViaBodyHash(body)
        issueNumber ==
            IF Len(closingIssues) = 0
            THEN IF Len(hashes) > 0 THEN hashes[1].digits ELSE 0
            ELSE closingIssues[1]
    IN  IF Len(closingIssues) = 0 /\ Len(hashes) = 0
        THEN [kind |-> "convert", number |-> 0]
        ELSE IF Len(closingIssues) > 1
        THEN [kind |-> "multiple", number |-> 0]
        ELSE IF issueNumber = 0
        THEN [kind |-> "notFound", number |-> 0]
        ELSE [kind |-> "task", number |-> issueNumber]

----------------------------------------------------------------------------
(* Ground truths: _collectGroundTruths, lines 198-212 *)

\* the presence tests of lines 204 and 207 left out
_collectGroundTruths_absentCounts(languages, dependencies, devDependencies) ==
    (IF Len(languages) = 0
     THEN <<"No languages found in the repository">> ELSE <<>>)
    \o (IF Cardinality(dependencies.keys) = 0
        THEN <<"No dependencies found in the repository">> ELSE <<>>)
    \o (IF Cardinality(devDependencies.keys) = 0
        THEN <<"No devDependencies found in the repository">> ELSE <<>>)

_collectGroundTruths(languages, dependencies, devDependencies) ==
    (IF Len(languages) = 0
     THEN <<"No languages found in the repository">> ELSE <<>>)
    \o (IF dependencies.present /\ Cardinality(dependencies.keys) = 0
        THEN <<"No dependencies found in the repository">> ELSE <<>>)
    \o (IF devDependencies.present /\ Cardinality(devDependencies.keys) = 0
        THEN <<"No devDependencies found in the repository">> ELSE <<>>)

LanguageStats == {<<>>, <<<<"TypeScript", 100>>>>}
Mappings == {Mapping(FALSE, {}), Mapping(TRUE, {}), Mapping(TRUE, {"jest"})}
\* what findGroundTruths resolves with
FoundGroundTruths == {<<>>, <<"The task requires a throttle">>}

----------------------------------------------------------------------------
(* Verdict: parsePullReviewData, lines 301-322, and the decision rule *)

\* a field of the object parseLooseJson produced: its typeof, whether
\* Number() of it is a number, and that number (in tenths) or the string
Field(type, numeric, value, text) ==
    [type |-> type, numeric |-> numeric, value |-> value, text |-> text]
Undefined == Field("undefined", FALSE, 0, "")
Num(v) == Field("number", TRUE, v, "")
Str(s) == Field("string", FALSE, 0, s)
NumStr(v) == Field("string", TRUE, v, "numeric")

Thresholds == {Num(2), Num(5), Num(10), NumStr(2), Str("high"), Undefined}
Comments == {Str("passed"), Str("needs work"), Num(1), Undefined}

\* what createCompletion's answer parses to; parses = FALSE when
\* parseLooseJson throws
Answers ==
    [parses : {TRUE}, confidenceThreshold : Thresholds, reviewComment : Comments]
    \cup {[parses |-> FALSE, confidenceThreshold |-> Undefined,
            reviewComment |-> Undefined]}

\* a missing reviewComment defaulted to the empty string
parsePullReviewData_defaultComment(parsedInput) ==
    LET rawThreshold == parsedInput.confidenceThreshold
        rawComment == parsedInput.reviewComment
    IN  IF ~parsedInput.parses
        THEN [threw |-> TRUE, confidenceThreshold |-> 0, reviewComment |-> ""]
        ELSE IF rawThreshold.type # "number"
                /\ (rawThreshold.type # "string" \/ ~rawThreshold.numeric)
        THEN [threw |-> TRUE, confidenceThreshold |-> 0, reviewComment |-> ""]
        ELSE [threw |-> FALSE, confidenceThreshold |-> rawThreshold.value,
              reviewComment |-> IF rawComment.type = "string"
                                THEN rawComment.text ELSE ""]

parsePullReviewData(parsedInput) ==
    LET rawThreshold == parsedInput.confidenceThreshold
        rawComment == parsedInput.reviewComment
    IN  IF ~parsedInput.parses
        THEN [threw |-> TRUE, confidenceThreshold |-> 0, reviewComment |-> ""]
        ELSE IF rawThreshold.type # "number"
                /\ (rawThreshold.type # "string" \/ ~rawThreshold.numeric)
        THEN [threw |-> TRUE, confidenceThreshold |-> 0, reviewComment |-> ""]
        ELSE IF rawComment.type # "string"
        THEN [threw |-> TRUE, confidenceThreshold |-> 0, reviewComment |-> ""]
        ELSE [threw |-> FALSE, confidenceThreshold |-> rawThreshold.value,
              reviewComment |-> rawComment.text]

\* the comparison of line 49 turned around
shouldConvertToDraft_inverted(confidenceThreshold) ==
    confidenceThreshold > HalfConfidence

\* line 49
shouldConvertToDraft(confidenceThreshold) == confidenceThreshold < HalfConfidence

\* line 53
reviewStatus(confidenceThreshold) ==
    IF confidenceThreshold > HalfConfidence THEN "COMMENT" ELSE "REQUEST_CHANGES"

----------------------------------------------------------------------------
(* The invocation, step by step *)

At(p, pc) == inv[p].pc = pc

Becomes(p, r) == inv' = [inv EXCEPT ![p] = r]

\* constructor, lines 16-18: a webhook delivery binds its context.  Under
\* Spec deliveries are handled one after another.
Dispatch(p) ==
    /\ \A q \in Procs : At(q, "idle")
    /\ \E pr \in PullRequests :
        Becomes(p, [Idle EXCEPT !.pc = "performPullPrecheck", !.pull_request = pr])
    /\ UNCHANGED <<now, timeline>>

\* the closed check placed before the draft check
precheck_closedFirst(pull_request) ==
    IF pull_request.state = "closed"
    THEN [skip |-> TRUE, reason |-> "PR is closed, no action required"]
    ELSE IF pull_request.draft
    THEN [skip |-> TRUE, reason |-> "PR is in draft mode, no action required"]
    ELSE [skip |-> FALSE, reason |-> ""]

\* the closed check left out
precheck_noClosedCheck(pull_request) ==
    IF pull_request.draft
    THEN [skip |-> TRUE, reason |-> "PR is in draft mode, no action required"]
    ELSE [skip |-> FALSE, reason |-> ""]

\* lines 29-33, up to the await of canPerformReview
precheck(pull_request) ==
    IF pull_request.draft
    THEN [skip |-> TRUE, reason |-> "PR is in draft mode, no action required"]
    ELSE IF pull_request.state = "closed"
    THEN [skip |-> TRUE, reason |-> "PR is closed, no action required"]
    ELSE [skip |-> FALSE, reason |-> ""]

PerformPullPrecheck(p) ==
    /\ At(p, "performPullPrecheck")
    /\ LET check == precheck(inv[p].pull_request)
       IN  IF check.skip
           THEN Becomes(p, Return(inv[p], 200, check.reason))
           ELSE Becomes(p, [inv[p] EXCEPT !.pc = "canPerformReview"])
    /\ UNCHANGED <<now, timeline>>

\* lines 33-35 applied to what canPerformReview did: its error propagates,
\* false short-circuits, true goes on to _handleCodeReview
afterCanPerformReview(r, can) ==
    IF can.threw
    THEN Throw(r, "Only one review per day is allowed")
    ELSE IF ~can.value
    THEN Return(r, 200, "Cannot perform review at this time")
    ELSE [r EXCEPT !.pc = "getTaskNumberFromPullRequest"]

\* canPerformReview, lines 87-118: listEvents answers with the timeline or
\* rejects
CanPerformReview(p) ==
    /\ At(p, "canPerformReview")
    /\ LET r == Logged(inv[p], "listEvents")
       IN  \/ Becomes(p, afterCanPerformReview(r, canPerformReview(timeline, now)))
           \/ Becomes(p, Throw(r, "listEvents failed"))
    /\ UNCHANGED <<now, timeline>>

\* getTaskNumberFromPullRequest, lines 264-300, with checkIfPrClosesIssues,
\* up to the await of the corrective convertPullToDraft
GetTaskNumberFromPullRequest(p) ==
    /\ At(p, "getTaskNumberFromPullRequest")
    /\ \E response \in GraphqlResponses :
        LET pull_request == inv[p].pull_request
            closes == checkIfPrClosesIssues(pull_request.number, response)
            r == IF closes.queried
                 THEN [Logged(inv[p], "graphql:closedByPullRequestsReferences")
                         EXCEPT !.graphql = response, !.closingIssues = closes.issues]
                 ELSE inv[p]
            task == resolveTask(closes.issues, pull_request.body)
        IN  Becomes(p,
              IF closes.threw
              THEN Throw(r, "[checkIfPrClosesIssues]: pr_number is required")
              ELSE IF task.kind = "convert"
              THEN [r EXCEPT !.pc = "linkIssue"]
              ELSE IF task.kind = "multiple"
              THEN Throw(r, "Multiple tasks linked to this PR, needs investigated to see how best to handle it.")
              ELSE IF task.kind = "notFound"
              THEN Throw(r, "Task number not found")
              ELSE [r EXCEPT !.pc = "fetchIssue", !.taskNumber = task.number])
    /\ UNCHANGED <<now, timeline>>

\* lines 283-284: the corrective draft conversion, then the error
LinkIssue(p) ==
    /\ At(p, "linkIssue")
    /\ LET r == Logged(inv[p], "graphql:convertPullRequestToDraft")
       IN  \/ Becomes(p, Throw(r, "You need to link an issue and after that convert the PR to ready for review"))
           \/ Becomes(p, Throw(r, "Failed to convert pull request to draft mode: "))
    /\ UNCHANGED <<now, timeline>>

\* reviewPull, lines 159-167: the issue is found, is missing, or the fetch
\* fails; the linker's locals are gone
FetchIssue(p) ==
    /\ At(p, "fetchIssue")
    /\ LET r == [Logged(inv[p], "fetchIssue") EXCEPT
                    !.taskNumber = 0, !.graphql = NoResponse, !.closingIssues = <<>>]
       IN  \/ Becomes(p, [r EXCEPT !.pc = "formatSpecAndPull"])
           \/ Becomes(p, Throw(r, "Error fetching issue, Aborting"))
           \/ Becomes(p, Throw(r, "fetchIssue failed"))
    /\ UNCHANGED <<now, timeline>>

\* reviewPull, lines 170-171: the spec and diff are formatted, then both
\* repository fetches are started
FormatSpecAndPull(p) ==
    /\ At(p, "formatSpecAndPull")
    /\ LET r == Logged(inv[p], "formatSpecAndPull")
       IN  \/ Becomes(p, [Logged(Logged(r, "fetchRepoLanguageStats"), "fetchRepoDependencies")
                            EXCEPT !.pc = "Promise.all",
                                   !.langState = Pending, !.depsState = Pending])
           \/ Becomes(p, Throw(r, "formatSpecAndPull failed"))
    /\ UNCHANGED <<now, timeline>>

\* the collector's facts used as soon as there is one
afterPromiseAll_anyFact(r) ==
    LET groundTruths ==
            _collectGroundTruths(r.languages, r.dependencies, r.devDependencies)
    IN  IF Len(groundTruths) >= 1
        THEN [r EXCEPT !.pc = "createCompletion", !.groundTruths = groundTruths]
        ELSE [r EXCEPT !.pc = "findGroundTruths", !.groundTruths = groundTruths]

\* lines 173-185 once Promise.all has resolved: the collector's facts go to
\* createCompletion when there are exactly 3 of them, else findGroundTruths
\* is called
afterPromiseAll(r) ==
    LET groundTruths ==
            _collectGroundTruths(r.languages, r.dependencies, r.devDependencies)
    IN  IF Len(groundTruths) = 3
        THEN [r EXCEPT !.pc = "createCompletion", !.groundTruths = groundTruths]
        ELSE [r EXCEPT !.pc = "findGroundTruths", !.groundTruths = groundTruths]

\* going on as soon as one of the two fetches has resolved
joined_either(r) ==
    IF r.langState = "resolved" \/ r.depsState = "resolved"
    THEN afterPromiseAll(r)
    ELSE r

\* Promise.all of line 171: it resolves when both fetches have resolved and
\* rejects as soon as one rejects
joined(r) ==
    IF r.langState = "resolved" /\ r.depsState = "resolved"
    THEN afterPromiseAll(r)
    ELSE r

FetchRepoLanguageStats(p) ==
    /\ At(p, "Promise.all")
    /\ inv[p].langState = Pending
    /\ \/ \E languages \in LanguageStats :
            Becomes(p, joined([inv[p] EXCEPT !.langState = "resolved",
                                             !.languages = languages]))
       \/ Becomes(p, Throw([inv[p] EXCEPT !.langState = "rejected"],
                           "fetchRepoLanguageStats failed"))
    /\ UNCHANGED <<now, timeline>>

FetchRepoDependencies(p) ==
    /\ At(p, "Promise.all")
    /\ inv[p].depsState = Pending
    /\ \/ \E dependencies \in Mappings, devDependencies \in Mappings :
            Becomes(p, joined([inv[p] EXCEPT !.depsState = "resolved",
                                             !.dependencies = dependencies,
                                             !.devDependencies = devDependencies]))
       \/ Becomes(p, Throw([inv[p] EXCEPT !.depsState = "rejected"],
                           "fetchRepoDependencies failed"))
    /\ UNCHANGED <<now, timeline>>

\* a failed derivation tried again instead of thrown
FindGroundTruths_retry(p) ==
    /\ At(p, "findGroundTruths")
    /\ LET r == Logged(inv[p], "findGroundTruths")
       IN  \/ \E groundTruths \in FoundGroundTruths :
                Becomes(p, [r EXCEPT !.pc = "createCompletion",
                                     !.groundTruths = groundTruths])
           \/ Becomes(p, r)
    /\ UNCHANGED <<now, timeline>>

\* line 185
FindGroundTruths(p) ==
    /\ At(p, "findGroundTruths")
    /\ LET r == Logged(inv[p], "findGroundTruths")
       IN  \/ \E groundTruths \in FoundGroundTruths :
                Becomes(p, [r EXCEPT !.pc = "createCompletion",
                                     !.groundTruths = groundTruths])
           \/ Becomes(p, Throw(r, "findGroundTruths failed"))
    /\ UNCHANGED <<now, timeline>>

\* _handleCodeReview, lines 47-53, applied to the parsed answer
afterReviewPull(r, parsedInput) ==
    LET verdict == parsePullReviewData(parsedInput)
        answered == [r EXCEPT !.answer = parsedInput]
        parsed == [answered EXCEPT
                     !.confidenceThreshold = verdict.confidenceThreshold,
                     !.reviewComment = verdict.reviewComment]
    IN  IF verdict.threw
        THEN Throw(answered, "Couldn't parse JSON output; Aborting")
        ELSE IF shouldConvertToDraft(verdict.confidenceThreshold)
        THEN [parsed EXCEPT !.pc = "convertPullToDraft"]
        ELSE [parsed EXCEPT !.pc = "submitCodeReview"]

\* lines 176-192 and 46-49: createCompletion is called with the ground
\* truths and answers or fails; reviewPull's locals are gone
CreateCompletion(p) ==
    /\ At(p, "createCompletion")
    /\ LET r == [Logged(inv[p], "createCompletion") EXCEPT
                    !.groundTruths = <<>>, !.languages = <<>>,
                    !.dependencies = NoMapping, !.devDependencies = NoMapping]
       IN  \/ \E parsedInput \in Answers : Becomes(p, afterReviewPull(r, parsedInput))
           \/ Becomes(p, Throw(r, "createCompletion failed"))
    /\ UNCHANGED <<now, timeline>>

\* a failed draft conversion tried again instead of thrown
ConvertPullToDraft_retry(p) ==
    /\ At(p, "convertPullToDraft")
    /\ LET r == Logged(inv[p], "graphql:convertPullRequestToDraft")
       IN  \/ Becomes(p, [r EXCEPT !.pc = "submitCodeReview"])
           \/ Becomes(p, r)
    /\ UNCHANGED <<now, timeline>>

\* lines 49-51 and convertPullToDraft, lines 125-143
ConvertPullToDraft(p) ==
    /\ At(p, "convertPullToDraft")
    /\ LET r == Logged(inv[p], "graphql:convertPullRequestToDraft")
       IN  \/ Becomes(p, [r EXCEPT !.pc = "submitCodeReview"])
           \/ Becomes(p, Throw(r, "Failed to convert pull request to draft mode: "))
    /\ UNCHANGED <<now, timeline>>

\* the catch of submitCodeReview swallowing the failure
SubmitCodeReview_swallow(p) ==
    /\ At(p, "submitCodeReview")
    /\ LET r == [Logged(inv[p], "createReview") EXCEPT
                    !.review = [body |-> inv[p].reviewComment,
                                event |-> reviewStatus(inv[p].confidenceThreshold),
                                created |-> FALSE]]
       IN  \/ /\ Becomes(p, Return([r EXCEPT !.review.created = TRUE], 200, "Success"))
              /\ timeline' = Append(timeline, Event("reviewed", "Bot", now))
           \/ /\ Becomes(p, Return(r, 200, "Success"))
              /\ UNCHANGED timeline
    /\ UNCHANGED now

\* lines 53-54 and submitCodeReview, lines 62-81: a review that is created
\* shows in the timeline as a "reviewed" event by the app's bot
SubmitCodeReview(p) ==
    /\ At(p, "submitCodeReview")
    /\ LET r == [Logged(inv[p], "createReview") EXCEPT
                    !.review = [body |-> inv[p].reviewComment,
                                event |-> reviewStatus(inv[p].confidenceThreshold),
                                created |-> FALSE]]
       IN  \/ /\ Becomes(p, Return([r EXCEPT !.review.created = TRUE], 200, "Success"))
              /\ timeline' = Append(timeline, Event("reviewed", "Bot", now))
           \/ /\ Becomes(p, Throw(r, "Failed to submit code review"))
              /\ UNCHANGED timeline
    /\ UNCHANGED now

\* the process of a finished invocation ends
Exit(p) ==
    /\ inv[p].pc \in Terminal
    /\ Becomes(p, Idle)
    /\ UNCHANGED <<now, timeline>>

\* time passes: the clock is sampled one millisecond before and exactly at
\* each day boundary
Tick ==
    /\ now < MaxDays * _oneDay
    /\ now' = IF now % _oneDay = 0 THEN now + (_oneDay - 1) ELSE now + 1
    /\ UNCHANGED <<timeline, inv>>

Run(p) ==
    \/ PerformPullPrecheck(p)
    \/ CanPerformReview(p)
    \/ GetTaskNumberFromPullRequest(p)
    \/ LinkIssue(p)
    \/ FetchIssue(p)
    \/ FormatSpecAndPull(p)
    \/ FetchRepoLanguageStats(p)
    \/ FetchRepoDependencies(p)
    \/ FindGroundTruths(p)
    \/ CreateCompletion(p)
    \/ ConvertPullToDraft(p)
    \/ SubmitCodeReview(p)

Init ==
    /\ now = 0
    /\ timeline = <<>>
    /\ inv = [p \in Procs |-> Idle]

Next ==
    \/ \E p \in Procs : Dispatch(p) \/ Run(p) \/ Exit(p)
    \/ Tick

\* deliveries handled one after another
Spec == Init /\ [][Next]_vars

----------------------------------------------------------------------------
(* Two deliveries for the same pull request handled at the same time: the  *)
(* workflow runs of pull_request.opened and pull_request.ready_for_review  *)
(* are separate processes and nothing serialises them.                     *)

ConcurrentInit ==
    /\ now = 0
    /\ timeline = <<>>
    /\ \E pr \in PullRequests :
        inv = [p \in Procs |->
                [Idle EXCEPT !.pc = "performPullPrecheck", !.pull_request = pr]]

ConcurrentNext ==
    \/ \E p \in Procs : Run(p)
    \/ Tick

ConcurrentSpec == ConcurrentInit /\ [][ConcurrentNext]_vars

----------------------------------------------------------------------------
(* The throttle on its own: canPerformReview applied to every timeline of  *)
(* at most MaxEvents events at every sampled instant.  listEvents returns  *)
(* the events in the order they were created, none of them in the future.  *)

Instants ==
    {d * _oneDay : d \in 0..MaxDays} \cup {d * _oneDay - 1 : d \in 1..MaxDays}

Events ==
    {Event(kind, actorType, at) :
        kind \in {"reviewed", "commented"}, actorType \in {"Bot", "User"},
        at \in Instants}

Chronological(data) ==
    \A i \in 1..Len(data) - 1 : data[i].created_at <= data[i + 1].created_at

Timelines ==
    UNION {{data \in [1..n -> Events] : Chronological(data)} : n \in 0..MaxEvents}

OpenPullRequest ==
    [draft |-> FALSE, state |-> "open", number |-> 3, body |-> Body(TRUE, <<>>)]

ThrottleInit ==
    /\ now \in Instants
    /\ timeline \in {data \in Timelines : \A i \in 1..Len(data) : data[i].created_at <= now}
    /\ inv = [p \in Procs |->
                IF p = "pull_request.opened"
                THEN [Idle EXCEPT !.pc = "canPerformReview",
                                  !.pull_request = OpenPullRequest]
                ELSE Idle]

ThrottleNext == \E p \in Procs : CanPerformReview(p)

ThrottleSpec == ThrottleInit /\ [][ThrottleNext]_vars

----------------------------------------------------------------------------
(* Properties *)

DraftConversion == "graphql:convertPullRequestToDraft"

\* the reasons that mention draft mode, and those that mention "closed"
DraftModeReasons == {"PR is in draft mode, no action required"}
ClosedReasons == {"PR is closed, no action required"}

NoApiCall(p) == inv[p].log = <<>>

Returned200(p) == inv[p].pc = "returned" /\ inv[p].result.status = 200

\* call a is in the log before call b
Precedes(log, a, b) ==
    \E i, j \in 1..Len(log) : i < j /\ log[i] = a /\ log[j] = b

\* C1: an invocation for a draft pull request, whatever its state and the
\* timeline, makes no API call and can only return status 200 with a reason
\* that mentions draft mode.
C1_DraftSkips ==
    \A p \in Procs :
        inv[p].pull_request.draft =>
            /\ NoApiCall(p)
            /\ inv[p].pc \in {"performPullPrecheck", "returned"}
            /\ inv[p].pc = "returned" =>
                /\ Returned200(p)
                /\ inv[p].result.reason \in DraftModeReasons

C1_Witness ==
    \E p \in Procs :
        /\ inv[p].pull_request.draft
        /\ inv[p].pull_request.state = "closed"
        /\ inv[p].pc = "returned"
        /\ timeline # <<>>

\* C2 as stated: an invocation for a closed pull request, a draft one
\* included, makes no API call and returns status 200 with a reason that
\* mentions "closed".
C2_ClosedReason ==
    \A p \in Procs :
        inv[p].pull_request.state = "closed" =>
            /\ NoApiCall(p)
            /\ inv[p].pc \in {"performPullPrecheck", "returned"}
            /\ inv[p].pc = "returned" =>
                /\ Returned200(p)
                /\ inv[p].result.reason \in ClosedReasons

\* C2 amended: an invocation for a closed pull request makes no API call and
\* returns status 200; the reason mentions "closed" when the pull request is
\* not a draft and mentions draft mode when it is.
C2_ClosedSkips ==
    \A p \in Procs :
        inv[p].pull_request.state = "closed" =>
            /\ NoApiCall(p)
            /\ inv[p].pc \in {"performPullPrecheck", "returned"}
            /\ inv[p].pc = "returned" =>
                /\ Returned200(p)
                /\ inv[p].result.reason \in
                     (IF inv[p].pull_request.draft
                      THEN DraftModeReasons ELSE ClosedReasons)

C2_Witness ==
    \E p \in Procs :
        /\ inv[p].pull_request.state = "closed"
        /\ ~inv[p].pull_request.draft
        /\ inv[p].pc = "returned"
        /\ inv[p].result.reason \in ClosedReasons

\* C3: when the throttle denies review, performPullPrecheck returns status 200
\* with a reason; the denial is not thrown out of it.
C3_DenialReturns ==
    \A p \in Procs :
        inv[p].error = "Only one review per day is allowed" =>
            /\ Returned200(p)
            /\ inv[p].result.reason # ""

\* the bot-authored "reviewed" events of the timeline
BotReviews == SelectSeq(SelectSeq(timeline, IsReviewed), IsBot)

\* C4: no two bot reviews are submitted less than 24 hours apart, however
\* the invocations on the pull request are run.
C4_ReviewsADayApart ==
    \A i, j \in 1..Len(BotReviews) :
        i < j => BotReviews[j].created_at - BotReviews[i].created_at >= _oneDay

\* the timeline holds a bot-authored "reviewed" event under 24 hours old
RecentBotReview ==
    \E i \in 1..Len(timeline) :
        /\ IsReviewed(timeline[i])
        /\ IsBot(timeline[i])
        /\ now - timeline[i].created_at < _oneDay

C6_AtMostOnce ==
    \A p \in Procs :
        /\ Calls(p, DraftConversion) <= 1
        /\ Calls(p, "createReview") <= 1

C6_Witness ==
    \E p \in Procs :
        /\ inv[p].pc = "threw"
        /\ Calls(p, DraftConversion) = 1
        /\ Calls(p, "createReview") = 1

\* C7: the event passed to createReview is "REQUEST_CHANGES" when
\* confidenceThreshold < 0.5 and "COMMENT" otherwise, 0.5 included.
C7_EventByConfidence ==
    \A p \in Procs :
        inv[p].review.event # "" =>
            inv[p].review.event =
                IF inv[p].confidenceThreshold < HalfConfidence
                THEN "REQUEST_CHANGES" ELSE "COMMENT"

\* C8: a review is submitted as "REQUEST_CHANGES" if and only if the decision
\* step converted the pull request to draft before it.
C8_DraftIffRequestChanges ==
    \A p \in Procs :
        inv[p].review.event # "" =>
            (Precedes(inv[p].log, DraftConversion, "createReview")
                <=> inv[p].review.event = "REQUEST_CHANGES")

\* C9: with confidenceThreshold below 0.5 the draft conversion is issued and
\* has completed before createReview is called; a failed draft conversion
\* ends the invocation with an error and without a createReview call.
C9_DraftBeforeReview ==
    \A p \in Procs :
        /\ (inv[p].confidenceThreshold < HalfConfidence
            /\ (inv[p].pc = "submitCodeReview" \/ inv[p].review.event # "")) =>
                /\ Calls(p, DraftConversion) = 1
                /\ Calls(p, "createReview") = 1 =>
                       Precedes(inv[p].log, DraftConversion, "createReview")
        /\ inv[p].pc = "convertPullToDraft" => Calls(p, "createReview") = 0
        /\ inv[p].error = "Failed to convert pull request to draft mode: " =>
                /\ inv[p].pc = "threw"
                /\ Calls(p, "createReview") = 0

C9_Witness ==
    \E p \in Procs :
        /\ inv[p].confidenceThreshold < HalfConfidence
        /\ inv[p].result.reason = "Success"
        /\ Precedes(inv[p].log, DraftConversion, "createReview")

\* C10: every returned result has status 200; its reason is "Success" exactly
\* when one createReview call was made and answered, with the verdict's
\* reviewComment as body; any other reason comes with no createReview,
\* completion or draft-conversion call; a failed createReview is thrown,
\* never returned.
C10_Results ==
    \A p \in Procs :
        /\ inv[p].pc = "returned" =>
            /\ inv[p].result.status = 200
            /\ inv[p].result.reason = "Success" <=>
                /\ Calls(p, "createReview") = 1
                /\ inv[p].review.created
                /\ inv[p].review.body = inv[p].reviewComment
            /\ inv[p].result.reason # "Success" =>
                /\ Calls(p, "createReview") = 0
                /\ Calls(p, "createCompletion") = 0
                /\ Calls(p, DraftConversion) = 0
        /\ (Calls(p, "createReview") = 1 /\ ~inv[p].review.created) =>
            /\ inv[p].pc = "threw"
            /\ inv[p].error = "Failed to submit code review"
            /\ inv[p].result = NoResult

C10_Witness ==
    \E p \in Procs :
        /\ inv[p].pc = "returned"
        /\ inv[p].result.reason = "Success"
        /\ inv[p].review.created
        /\ inv[p].review.event = "COMMENT"

----------------------------------------------------------------------------
(* Properties of the task linker *)

ClosingQuery == "graphql:closedByPullRequestsReferences"

MultipleTasks ==
    "Multiple tasks linked to this PR, needs investigated to see how best to handle it."
MustLinkIssue ==
    "You need to link an issue and after that convert the PR to ready for review"
ConversionFailed == "Failed to convert pull request to draft mode: "
PrNumberRequired == "[checkIfPrClosesIssues]: pr_number is required"

\* the closing-references query was answered and getTaskNumberFromPullRequest
\* has run on the answer
Queried(p) == Calls(p, ClosingQuery) = 1 /\ Calls(p, "fetchIssue") = 0

\* performPullPrecheck got past the throttle and getTaskNumberFromPullRequest
\* has run
PastLinker(p) ==
    /\ Calls(p, "listEvents") = 1
    /\ inv[p].pc \notin {"canPerformReview", "getTaskNumberFromPullRequest"}
    /\ inv[p].error \notin {"listEvents failed", "Only one review per day is allowed"}

\* the body holds a #<digits> token; the number of the first one
HasHash(body) == ~body.null /\ \E i \in 1..Len(body.words) : body.words[i].hash
FirstHash(body) ==
    LET first == CHOOSE i \in 1..Len(body.words) :
                    /\ body.words[i].hash
                    /\ \A j \in 1..(i - 1) : ~body.words[j].hash
    IN  body.words[first].digits

\* what getTaskNumberFromPullRequest does for a pull request without closing
\* references
AsWithoutClosingReferences(p) ==
    LET body == inv[p].pull_request.body
    IN  /\ ~HasHash(body) =>
            \/ inv[p].pc = "linkIssue"
            \/ /\ inv[p].pc = "threw"
               /\ inv[p].error \in {MustLinkIssue, ConversionFailed}
               /\ Calls(p, DraftConversion) = 1
        /\ (HasHash(body) /\ FirstHash(body) = 0) =>
            /\ inv[p].pc = "threw"
            /\ inv[p].error = "Task number not found"
            /\ Calls(p, DraftConversion) = 0
        /\ (HasHash(body) /\ FirstHash(body) # 0) =>
            /\ inv[p].pc = "fetchIssue"
            /\ inv[p].taskNumber = FirstHash(body)

\* C11: more than one closing issue raises the "multiple tasks linked" error;
\* no task number is resolved, from the issues or from the body, and no
\* completion call, draft conversion or createReview is made.
C11_MultipleTasks ==
    \A p \in Procs :
        (Queried(p) /\ inv[p].graphql.ok /\ Len(inv[p].graphql.edges) > 1) =>
            /\ inv[p].pc = "threw"
            /\ inv[p].error = MultipleTasks
            /\ inv[p].taskNumber = 0
            /\ inv[p].log = <<"listEvents", ClosingQuery>>

C11_Witness ==
    \E p \in Procs :
        /\ inv[p].error = MultipleTasks
        /\ Len(inv[p].closingIssues) = 2
        /\ HasHash(inv[p].pull_request.body)

\* C12 as stated: zero closing references and a body without #<digits> token
\* (or a null body): the draft-conversion mutation is issued and then the
\* "must link an issue" error is raised; no issue fetch, completion call or
\* createReview.
C12_MustLinkError ==
    \A p \in Procs :
        (Queried(p) /\ inv[p].graphql.ok /\ inv[p].graphql.edges = <<>>
         /\ ~HasHash(inv[p].pull_request.body)) =>
            /\ \/ inv[p].pc = "linkIssue"
               \/ /\ inv[p].pc = "threw"
                  /\ inv[p].error = MustLinkIssue
                  /\ inv[p].log = <<"listEvents", ClosingQuery, DraftConversion>>
            /\ inv[p].pc = "linkIssue" => inv[p].log = <<"listEvents", ClosingQuery>>

\* C12 amended: as stated, except that the error raised is the conversion's
\* own "Failed to convert" error when the mutation fails.
C12_LinkIssue ==
    \A p \in Procs :
        (Queried(p) /\ inv[p].graphql.ok /\ inv[p].graphql.edges = <<>>
         /\ ~HasHash(inv[p].pull_request.body)) =>
            /\ \/ inv[p].pc = "linkIssue"
               \/ /\ inv[p].pc = "threw"
                  /\ inv[p].error \in {MustLinkIssue, ConversionFailed}
                  /\ inv[p].log = <<"listEvents", ClosingQuery, DraftConversion>>
            /\ inv[p].pc = "linkIssue" => inv[p].log = <<"listEvents", ClosingQuery>>

C12_Witness ==
    \E p \in Procs :
        /\ inv[p].error = MustLinkIssue
        /\ inv[p].graphql.ok
        /\ inv[p].pull_request.body.null
        /\ Calls(p, DraftConversion) = 1

\* C13: with pr_number = 0 checkIfPrClosesIssues raises before any graphql
\* call; with a non-zero pr_number a failing query is not propagated but
\* yields no issues, and getTaskNumberFromPullRequest goes on as for a pull
\* request without closing references.
C13_FatalInputSoftTransport ==
    \A p \in Procs :
        /\ (PastLinker(p) /\ inv[p].pull_request.number = 0) =>
            /\ inv[p].pc = "threw"
            /\ inv[p].error = PrNumberRequired
            /\ inv[p].log = <<"listEvents">>
        /\ (PastLinker(p) /\ inv[p].pull_request.number # 0) =>
            /\ Calls(p, ClosingQuery) = 1
            /\ inv[p].error # PrNumberRequired
        /\ (Queried(p) /\ ~inv[p].graphql.ok) =>
            /\ inv[p].closingIssues = <<>>
            /\ AsWithoutClosingReferences(p)

C13_Witness ==
    \E p \in Procs :
        /\ Queried(p)
        /\ ~inv[p].graphql.ok
        /\ inv[p].pc = "fetchIssue"
        /\ inv[p].taskNumber = 5

\* C20: getTaskNumberFromPullRequest raises or returns a non-zero task
\* number: the number of the one closing reference whatever the body says,
\* else the number of the first #<digits> token of the body; a falsy number
\* raises "task number not found" without a draft conversion.
C20_TaskNumber ==
    \A p \in Procs :
        /\ inv[p].pc = "fetchIssue" =>
            /\ inv[p].taskNumber # 0
            /\ Len(inv[p].closingIssues) <= 1
            /\ Len(inv[p].closingIssues) = 1 =>
                   inv[p].taskNumber = inv[p].closingIssues[1]
            /\ Len(inv[p].closingIssues) = 0 =>
                /\ HasHash(inv[p].pull_request.body)
                /\ inv[p].taskNumber = FirstHash(inv[p].pull_request.body)
        /\ (Queried(p) /\ inv[p].closingIssues = <<>>
            /\ HasHash(inv[p].pull_request.body)
            /\ FirstHash(inv[p].pull_request.body) = 0) =>
                /\ inv[p].pc = "threw"
                /\ inv[p].error = "Task number not found"
        /\ inv[p].error = "Task number not found" => Calls(p, DraftConversion) = 0

C20_Witness ==
    \E p \in Procs :
        /\ inv[p].pc = "fetchIssue"
        /\ inv[p].closingIssues = <<7>>
        /\ HasHash(inv[p].pull_request.body)
        /\ FirstHash(inv[p].pull_request.body) = 5
        /\ inv[p].taskNumber = 7

----------------------------------------------------------------------------
(* Properties of reviewPull and of the verdict *)

NoLanguages == "No languages found in the repository"
NoDependencies == "No dependencies found in the repository"
NoDevDependencies == "No devDependencies found in the repository"

EmptyMapping(m) == m.present /\ m.keys = {}

\* the repository is signal-empty on all three axes
AllSignalsEmpty(p) ==
    /\ inv[p].languages = <<>>
    /\ EmptyMapping(inv[p].dependencies)
    /\ EmptyMapping(inv[p].devDependencies)

\* the fact holds of the signals the invocation fetched
FactHolds(p, fact) ==
    \/ fact = NoLanguages /\ inv[p].languages = <<>>
    \/ fact = NoDependencies /\ EmptyMapping(inv[p].dependencies)
    \/ fact = NoDevDependencies /\ EmptyMapping(inv[p].devDependencies)

\* the collector has run and its result is still in groundTruths
Collected(p) ==
    \/ inv[p].pc = "findGroundTruths"
    \/ inv[p].pc = "createCompletion" /\ Calls(p, "findGroundTruths") = 0

\* C14: the ground truths passed to createCompletion are never empty.
C14_GroundTruthsNonEmpty ==
    \A p \in Procs :
        inv[p].pc = "createCompletion" => inv[p].groundTruths # <<>>

\* createCompletion has answered
Answered(p) ==
    Calls(p, "createCompletion") = 1 /\ inv[p].error # "createCompletion failed"

ValidAnswer(a) ==
    /\ a.parses
    /\ a.reviewComment.type = "string"
    /\ \/ a.confidenceThreshold.type = "number"
       \/ a.confidenceThreshold.type = "string" /\ a.confidenceThreshold.numeric

ParseError == "Couldn't parse JSON output; Aborting"

\* C15: parsePullReviewData raises, and yields no verdict, when reviewComment
\* is no string or confidenceThreshold is neither a number nor a numeric
\* string, and no draft conversion or createReview follows; otherwise it
\* returns the threshold as a number and the comment unchanged.
C15_ParseOrRaise ==
    \A p \in Procs :
        Answered(p) =>
            /\ ~ValidAnswer(inv[p].answer) =>
                /\ inv[p].pc = "threw"
                /\ inv[p].error = ParseError
                /\ inv[p].confidenceThreshold = 0
                /\ inv[p].reviewComment = ""
                /\ inv[p].review = NoReview
                /\ Calls(p, DraftConversion) = 0
                /\ Calls(p, "createReview") = 0
            /\ ValidAnswer(inv[p].answer) =>
                /\ inv[p].error # ParseError
                /\ inv[p].confidenceThreshold = inv[p].answer.confidenceThreshold.value
                /\ inv[p].reviewComment = inv[p].answer.reviewComment.text

C15_Witness ==
    \E p \in Procs :
        /\ inv[p].answer.confidenceThreshold.type = "string"
        /\ inv[p].confidenceThreshold = 2
        /\ inv[p].reviewComment = "needs work"
        /\ inv[p].pc = "returned"

\* C16: exactly one ground-truth path is used and createCompletion is called
\* once: with exactly 3 collected facts those go to createCompletion and
\* findGroundTruths is never called; otherwise findGroundTruths is called
\* once and its result, without any collected fact, goes to createCompletion.
C16_OnePath ==
    \A p \in Procs :
        /\ inv[p].pc = "createCompletion" =>
            IF AllSignalsEmpty(p)
            THEN /\ inv[p].groundTruths =
                        <<NoLanguages, NoDependencies, NoDevDependencies>>
                 /\ Calls(p, "findGroundTruths") = 0
            ELSE /\ Calls(p, "findGroundTruths") = 1
                 /\ inv[p].groundTruths \in FoundGroundTruths
                 /\ \A i \in 1..Len(inv[p].groundTruths) :
                        inv[p].groundTruths[i] \notin
                            {NoLanguages, NoDependencies, NoDevDependencies}
        /\ Calls(p, "findGroundTruths") <= 1
        /\ Calls(p, "createCompletion") <= 1
        /\ inv[p].pc \in {"convertPullToDraft", "submitCodeReview"} =>
               Calls(p, "createCompletion") = 1

C16_Witness ==
    \E p \in Procs :
        /\ inv[p].pc = "createCompletion"
        /\ Calls(p, "findGroundTruths") = 1
        /\ inv[p].languages = <<>>
        /\ EmptyMapping(inv[p].dependencies)
        /\ ~inv[p].devDependencies.present
        /\ inv[p].groundTruths # <<>>

\* C17: _collectGroundTruths returns exactly the facts that hold, in the
\* order languages, dependencies, devDependencies; an absent mapping gives no
\* fact, and there are 3 facts only when all three inputs are present and
\* empty.
C17_CollectedFacts ==
    \A p \in Procs :
        Collected(p) =>
            /\ inv[p].groundTruths =
                 SelectSeq(<<NoLanguages, NoDependencies, NoDevDependencies>>,
                           LAMBDA fact : FactHolds(p, fact))
            /\ Len(inv[p].groundTruths) = 3 <=> AllSignalsEmpty(p)

C17_Witness ==
    \E p \in Procs :
        /\ inv[p].pc = "findGroundTruths"
        /\ inv[p].languages = <<>>
        /\ ~inv[p].dependencies.present
        /\ EmptyMapping(inv[p].devDependencies)
        /\ inv[p].groundTruths = <<NoLanguages, NoDevDependencies>>

\* C18: the two repository fetches are started together; findGroundTruths
\* and createCompletion are called only after both have resolved, whichever
\* resolves first; if one rejects reviewPull fails without a completion call,
\* a draft conversion or a createReview.
C18_Join ==
    \A p \in Procs :
        /\ inv[p].langState = "none" <=> inv[p].depsState = "none"
        /\ inv[p].langState # "none" =>
            /\ Calls(p, "fetchRepoLanguageStats") = 1
            /\ Calls(p, "fetchRepoDependencies") = 1
        /\ (\/ inv[p].pc \in {"findGroundTruths", "createCompletion"}
            \/ Calls(p, "findGroundTruths") > 0
            \/ Calls(p, "createCompletion") > 0) =>
                /\ inv[p].langState = "resolved"
                /\ inv[p].depsState = "resolved"
        /\ ("rejected" \in {inv[p].langState, inv[p].depsState}) =>
            /\ inv[p].pc = "threw"
            /\ Calls(p, "findGroundTruths") = 0
            /\ Calls(p, "createCompletion") = 0
            /\ Calls(p, DraftConversion) = 0
            /\ Calls(p, "createReview") = 0

C18_Witness ==
    \E p \in Procs :
        /\ inv[p].depsState = "resolved"
        /\ inv[p].langState = "rejected"
        /\ inv[p].pc = "threw"

ExternalCalls ==
    { "listEvents", ClosingQuery, DraftConversion, "fetchIssue",
      "formatSpecAndPull", "fetchRepoLanguageStats", "fetchRepoDependencies",
      "findGroundTruths", "createCompletion", "createReview" }

\* the call an invocation that failed with the error made last
FailedAt(error) ==
    CASE error \in {"Error fetching issue, Aborting", "fetchIssue failed"} -> "fetchIssue"
      [] error = "formatSpecAndPull failed" -> "formatSpecAndPull"
      [] error \in {"fetchRepoLanguageStats failed", "fetchRepoDependencies failed"}
            -> "fetchRepoDependencies"
      [] error = "findGroundTruths failed" -> "findGroundTruths"
      [] error \in {"createCompletion failed", ParseError} -> "createCompletion"

PipelineErrors ==
    { "Error fetching issue, Aborting", "fetchIssue failed",
      "formatSpecAndPull failed", "fetchRepoLanguageStats failed",
      "fetchRepoDependencies failed", "findGroundTruths failed",
      "createCompletion failed", ParseError }

\* C19: every external call is made at most once per invocation; a missing
\* issue and a failure of formatting, of a repository fetch, of the
\* ground-truth derivation, of the completion or of parsing end the
\* invocation with a thrown error at that step, with no later call, no draft
\* conversion and no createReview; after a failed createReview nothing more
\* is called, so a draft conversion made before it stays.
C19_FailFast ==
    \A p \in Procs :
        /\ \A call \in ExternalCalls : Calls(p, call) <= 1
        /\ inv[p].error \in PipelineErrors =>
            /\ inv[p].pc = "threw"
            /\ inv[p].result = NoResult
            /\ inv[p].log[Len(inv[p].log)] = FailedAt(inv[p].error)
            /\ Calls(p, DraftConversion) = 0
            /\ Calls(p, "createReview") = 0
        /\ inv[p].error = "Failed to submit code review" =>
            /\ inv[p].pc = "threw"
            /\ inv[p].log[Len(inv[p].log)] = "createReview"
            /\ inv[p].confidenceThreshold < HalfConfidence =>
                   Calls(p, DraftConversion) = 1

C19_Witness ==
    \E p \in Procs :
        /\ inv[p].error = ParseError
        /\ Calls(p, "findGroundTruths") = 1
        /\ inv[p].pc = "threw"

====
